---- MODULE Spec2Model ----
(***************************************************************************)
(* SSO authentication service: the gRPC handlers of                        *)
(* internal/grpc/auth/server.go in front of the Auth service               *)
(* (services/auth), which talks to a user store, an app store, bcrypt and  *)
(* the token issuer.  Every request runs on its own goroutine; a request   *)
(* advances one collaborator call at a time, so calls of different         *)
(* requests interleave.                                                    *)
(***************************************************************************)
EXTENDS Integers, Sequences, FiniteSets, TLC

\* ---------------------------------------------------------------- bounds
MaxTTL == 2
MaxClock == 2
NumSalts == 2

\* concurrent requests in flight (one goroutine each)
Reqs == {"r1", "r2"}

\* ---------------------------------------------------------------- inputs
Pw33 == "123456789012345678901234567890123"
Emails == { <<>>, <<"n", "o">>, <<"a", "@", "x">>, <<"b", "@", "x">> }
Passwords == { "ab", "secret", "hunter2", Pw33 }
AppIds == { -1, 0, 1, 2 }
UserIds == { -1, 0, 1, 2, 3 }

\* ---------------------------------------------------------------- errors
\* An error is its chain of wrapped elements, outermost first: the op
\* prefixes added by fmt.Errorf("%s: %w", op, err) and, last, the sentinel
\* or failure it wraps.  The nil error is the empty chain.
Nil == <<>>

ErrInvalidCredentials == "auth.ErrInvalidCredentials"
ErrInvalidAppID == "auth.ErrInvalidAppID"
ErrUserExists == "auth.ErrUserExists"
\* named by the IsAdmin handler; the service package declares no such value
AuthErrUserNotFound == "auth.ErrUserNotFound"

StorageErrUserNotFound == "storage.ErrUserNotFound"
StorageErrUserExists == "storage.ErrUserExists"
StorageErrAppNotFound == "storage.ErrAppNotFound"
\* failures that are no sentinel: a broken store, bcrypt, the signer
StorageFailure == "storage: failure"
BcryptFailure == "bcrypt: failure"
JwtFailure == "jwt: signing failure"
Failures == { StorageFailure, BcryptFailure, JwtFailure }

\* errors.Is(err, target): target is somewhere in err's chain
Is(err, target) == \E i \in DOMAIN err : err[i] = target

\* fmt.Errorf("%s: %w", op, err)
Wrap(op, err) == <<op>> \o err

\* err.Error(): the text of every element of the chain
ErrorText(err) == { err[i] : i \in DOMAIN err }

\* ---------------------------------------------------------------- gRPC
OK == "OK"
InvalidArgument == "InvalidArgument"
AlreadyExists == "AlreadyExists"
NotFound == "NotFound"
Internal == "Internal"

internalServerError == "internal server error"

\* status.Error(code, msg) with a nil response
StatusError(code, msg) ==
  [code |-> code, msg |-> msg, details |-> <<>>, body |-> <<>>]

\* a response with a nil error
Reply(v) == [code |-> OK, msg |-> "", details |-> <<>>, body |-> <<v>>]

NoResp == [code |-> "", msg |-> "", details |-> <<>>, body |-> <<>>]

\* ---------------------------------------------------------------- validator
\* the email rule: one "@" with something on both sides
IsEmail(e) ==
  /\ Cardinality({ i \in DOMAIN e : e[i] = "@" }) = 1
  /\ e[1] # "@"
  /\ e[Len(e)] # "@"

\* the first failing tag of `validate:"required,email"`, "" when none fails
EmailTag(e) ==
  IF e = <<>> THEN "required" ELSE IF ~IsEmail(e) THEN "email" ELSE ""

\* `validate:"required,min=6"`
LoginPasswordTag(p) ==
  IF p = "" THEN "required" ELSE IF Len(p) < 6 THEN "min" ELSE ""

\* `validate:"required,min=6,max=32"`
RegisterPasswordTag(p) ==
  IF p = "" THEN "required"
  ELSE IF Len(p) < 6 THEN "min"
  ELSE IF Len(p) > 32 THEN "max" ELSE ""

\* the gt=0 rule dropped: only the zero value is rejected
PositiveTag_RequiredOnly(n) == IF n = 0 THEN "required" ELSE ""

\* `validate:"required,gt=0"` on an integer field
PositiveTag(n) == IF n = 0 THEN "required" ELSE IF ~(n > 0) THEN "gt" ELSE ""

Failed(ft) == ft[2] # ""

\* validate.Struct followed by formatValidationErrors: one <<field, tag>>
\* per failing field, in field order
LoginRequestValidation(email, password, appId) ==
  SelectSeq(<< <<"Email", EmailTag(email)>>,
               <<"Password", LoginPasswordTag(password)>>,
               <<"AppId", PositiveTag(appId)>> >>, Failed)

RegisterRequestValidation(email, password) ==
  SelectSeq(<< <<"Email", EmailTag(email)>>,
               <<"Password", RegisterPasswordTag(password)>> >>, Failed)

IsAdminRequestValidation(userId) ==
  SelectSeq(<< <<"UserId", PositiveTag(userId)>> >>, Failed)

\* status.Errorf(codes.InvalidArgument, "validation error: %v", violations)
ValidationError(violations) ==
  [code |-> InvalidArgument, msg |-> "validation error",
   details |-> violations, body |-> <<>>]

\* ---------------------------------------------------------------- bcrypt
Salts == 1 .. NumSalts

\* bcrypt.GenerateFromPassword: a salted digest of the password
GenerateFromPassword(p, salt) == [salt |-> salt, digest |-> <<salt, p>>]

\* bcrypt.CompareHashAndPassword: re-hash with the digest's salt and compare
CompareHashAndPassword(h, p) == GenerateFromPassword(p, h.salt).digest = h.digest

\* ---------------------------------------------------------------- stores
\* result of a collaborator call: an error chain and, when nil, a value
Res(err, val) == [err |-> err, val |-> val]

Admin0 ==
  [id |-> 1, email |-> <<"a", "@", "x">>,
   passHash |-> GenerateFromPassword("secret", 1), isAdmin |-> TRUE]

App1 == [id |-> 1, name |-> "app-1", secret |-> "secret-1"]

\* storage: find the user by email
StorageUser(us, email) ==
  IF \E u \in us : u.email = email
  THEN Res(Nil, CHOOSE u \in us : u.email = email)
  ELSE Res(<<StorageErrUserNotFound>>, FALSE)

NextID(us) == Cardinality(us) + 1

\* storage: insert a user; emails are unique, ids are assigned by the store
StorageSaveUser(us, email, passHash) ==
  IF \E u \in us : u.email = email
  THEN [users |-> us, res |-> Res(<<StorageErrUserExists>>, 0)]
  ELSE [users |-> us \cup { [id |-> NextID(us), email |-> email,
                             passHash |-> passHash, isAdmin |-> FALSE] },
        res |-> Res(Nil, NextID(us))]

\* storage: the not-found answers the admin query can give
IsAdminNotFound == { StorageErrUserNotFound, StorageErrAppNotFound }

\* storage: the admin flag of a user id
StorageIsAdmin(us, userId, notFound) ==
  IF \E u \in us : u.id = userId
  THEN Res(Nil, (CHOOSE u \in us : u.id = userId).isAdmin)
  ELSE Res(<<notFound>>, FALSE)

\* storage: find the app by id
StorageApp(as, appId) ==
  IF \E a \in as : a.id = appId
  THEN Res(Nil, CHOOSE a \in as : a.id = appId)
  ELSE Res(<<StorageErrAppNotFound>>, FALSE)

\* jwt.NewToken: the claims, signed with the app's secret
NewToken(user, app, ttl, now) ==
  [uid |-> user.id, email |-> user.email, app_id |-> app.id,
   exp |-> now + ttl, key |-> app.secret]

\* ---------------------------------------------------------------- Auth service
opLogin == "services.auth.Login"
opRegisterNewUser == "services.auth.RegisterNewUser"
opIsAdmin == "services.auth.IsAdmin"

\* Login that does not check the password of a user it found
LoginCredentials_NoCompare(password, ur) ==
  IF ur.err # Nil
  THEN IF Is(ur.err, StorageErrUserNotFound)
       THEN Res(Wrap(opLogin, <<ErrInvalidCredentials>>), FALSE)
       ELSE Res(Wrap(opLogin, ur.err), FALSE)
  ELSE Res(Nil, ur.val)

\* Login that wraps the store's not-found error instead of masking it
LoginCredentials_LeakNotFound(password, ur) ==
  IF ur.err # Nil
  THEN Res(Wrap(opLogin, ur.err), FALSE)
  ELSE IF ~CompareHashAndPassword(ur.val.passHash, password)
       THEN Res(Wrap(opLogin, <<ErrInvalidCredentials>>), FALSE)
       ELSE Res(Nil, ur.val)

\* Auth.Login up to the password check: ur is what userProvider.User returned
LoginCredentials(password, ur) ==
  IF ur.err # Nil
  THEN IF Is(ur.err, StorageErrUserNotFound)
       THEN Res(Wrap(opLogin, <<ErrInvalidCredentials>>), FALSE)
       ELSE Res(Wrap(opLogin, ur.err), FALSE)
  ELSE IF ~CompareHashAndPassword(ur.val.passHash, password)
       THEN Res(Wrap(opLogin, <<ErrInvalidCredentials>>), FALSE)
       ELSE Res(Nil, ur.val)

\* Login that issues the token without the configured TTL
LoginIssue_NoTTL(user, ar, ttl, now, signFail) ==
  IF ar.err # Nil THEN Res(Wrap(opLogin, ar.err), "")
  ELSE IF signFail THEN Res(Wrap(opLogin, <<JwtFailure>>), "")
  ELSE Res(Nil, NewToken(user, ar.val, 0, now))

\* Auth.Login from the app lookup on: ar is what appProvider.App returned,
\* signFail whether jwt.NewToken returned an error
LoginIssue(user, ar, ttl, now, signFail) ==
  IF ar.err # Nil THEN Res(Wrap(opLogin, ar.err), "")
  ELSE IF signFail THEN Res(Wrap(opLogin, <<JwtFailure>>), "")
  ELSE Res(Nil, NewToken(user, ar.val, ttl, now))

\* RegisterNewUser that returns a zero id after a successful save
RegisterNewUser_ZeroID(us, email, password, salt, hashFail, saveFail) ==
  IF hashFail
  THEN [users |-> us, called |-> FALSE,
        res |-> Res(Wrap(opRegisterNewUser, <<BcryptFailure>>), 0)]
  ELSE LET saved == IF saveFail
                    THEN [users |-> us, res |-> Res(<<StorageFailure>>, 0)]
                    ELSE StorageSaveUser(us, email,
                                         GenerateFromPassword(password, salt))
       IN [users |-> saved.users, called |-> TRUE,
           res |-> IF saved.res.err # Nil
                   THEN IF Is(saved.res.err, StorageErrUserExists)
                        THEN Res(Wrap(opRegisterNewUser, <<ErrUserExists>>), 0)
                        ELSE Res(Wrap(opRegisterNewUser, saved.res.err), 0)
                   ELSE Res(Nil, 0)]

\* RegisterNewUser that does not single out the store's already-exists error
RegisterNewUser_NoExists(us, email, password, salt, hashFail, saveFail) ==
  IF hashFail
  THEN [users |-> us, called |-> FALSE,
        res |-> Res(Wrap(opRegisterNewUser, <<BcryptFailure>>), 0)]
  ELSE LET saved == IF saveFail
                    THEN [users |-> us, res |-> Res(<<StorageFailure>>, 0)]
                    ELSE StorageSaveUser(us, email,
                                         GenerateFromPassword(password, salt))
       IN [users |-> saved.users, called |-> TRUE,
           res |-> IF saved.res.err # Nil
                   THEN Res(Wrap(opRegisterNewUser, saved.res.err), 0)
                   ELSE Res(Nil, saved.res.val)]

\* Auth.RegisterNewUser on the store us: the store it leaves and its result
RegisterNewUser(us, email, password, salt, hashFail, saveFail) ==
  IF hashFail
  THEN [users |-> us, called |-> FALSE,
        res |-> Res(Wrap(opRegisterNewUser, <<BcryptFailure>>), 0)]
  ELSE LET saved == IF saveFail
                    THEN [users |-> us, res |-> Res(<<StorageFailure>>, 0)]
                    ELSE StorageSaveUser(us, email,
                                         GenerateFromPassword(password, salt))
       IN [users |-> saved.users, called |-> TRUE,
           res |-> IF saved.res.err # Nil
                   THEN IF Is(saved.res.err, StorageErrUserExists)
                        THEN Res(Wrap(opRegisterNewUser, <<ErrUserExists>>), 0)
                        ELSE Res(Wrap(opRegisterNewUser, saved.res.err), 0)
                   ELSE Res(Nil, saved.res.val)]

\* Auth.IsAdmin: ur is what userProvider.IsAdmin returned
IsAdmin(ur) ==
  IF ur.err # Nil
  THEN IF Is(ur.err, StorageErrAppNotFound)
       THEN Res(Wrap(opIsAdmin, <<ErrInvalidAppID>>), FALSE)
       ELSE Res(Wrap(opIsAdmin, ur.err), FALSE)
  ELSE Res(Nil, ur.val)

\* ---------------------------------------------------------------- handlers
\* a Login handler that sends the text of an unmapped error
LoginReply_Raw(res) ==
  IF res.err # Nil
  THEN IF Is(res.err, ErrInvalidCredentials)
       THEN StatusError(InvalidArgument, "invalid email or password")
       ELSE StatusError(Internal, res.err[Len(res.err)])
  ELSE Reply(res.val)

\* serverAPI.Login after s.auth.Login returned
LoginReply(res) ==
  IF res.err # Nil
  THEN IF Is(res.err, ErrInvalidCredentials)
       THEN StatusError(InvalidArgument, "invalid email or password")
       ELSE StatusError(Internal, internalServerError)
  ELSE Reply(res.val)

\* serverAPI.Register after s.auth.RegisterNewUser returned
RegisterReply(res) ==
  IF res.err # Nil
  THEN IF Is(res.err, ErrUserExists)
       THEN StatusError(AlreadyExists, "user already exists")
       ELSE StatusError(Internal, internalServerError)
  ELSE Reply(res.val)

\* serverAPI.IsAdmin after s.auth.IsAdmin returned
IsAdminReply(res) ==
  IF res.err # Nil
  THEN IF Is(res.err, AuthErrUserNotFound)
       THEN StatusError(NotFound, "user not found")
       ELSE StatusError(Internal, internalServerError)
  ELSE Reply(res.val)

\* ---------------------------------------------------------------- state
VARIABLES
  users,   \* the user store
  apps,    \* the app store
  auth,    \* the Auth value built by New
  pc,      \* where each request is
  req,     \* the request each goroutine serves
  loc,     \* the locals of the call: user, error, result, calls made
  resp     \* the response sent

vars == <<users, apps, auth, pc, req, loc, resp>>

NoReq == [op |-> "", email |-> <<>>, password |-> "", appId |-> 0, userId |-> 0]

\* calls: the collaborator calls made so far, each <<callee, outcome>>
\* known: the request's email and password matched a stored user on entry
NoLoc == [user |-> <<>>, err |-> Nil, val |-> <<>>, calls |-> <<>>,
          iat |-> 0, known |-> FALSE]

Outcome(err) ==
  IF err = Nil THEN "ok" ELSE IF err[Len(err)] \in Failures THEN "failure" ELSE "error"

\* auth.New and the stores as the service finds them
Init ==
  /\ users = { Admin0 }
  /\ apps = { App1 }
  /\ auth \in [tokenTTL : 1 .. MaxTTL]
  /\ pc = [r \in Reqs |-> "idle"]
  /\ req = [r \in Reqs |-> NoReq]
  /\ loc = [r \in Reqs |-> NoLoc]
  /\ resp = [r \in Reqs |-> NoResp]

\* the password a stored user registered with
PasswordOf(u) == u.passHash.digest[2]

Matches(us, email, password) ==
  \E u \in us : u.email = email /\ PasswordOf(u) = password

\* serverAPI.Login: validate, then enter Auth.Login
ServerLogin(r) ==
  /\ pc[r] = "idle"
  /\ \E e \in Emails, p \in Passwords, a \in AppIds :
       LET v == LoginRequestValidation(e, p, a) IN
       /\ req' = [req EXCEPT
                    ![r] = [NoReq EXCEPT !.op = "Login", !.email = e,
                                         !.password = p, !.appId = a]]
       /\ IF v # <<>>
          THEN /\ resp' = [resp EXCEPT ![r] = ValidationError(v)]
               /\ pc' = [pc EXCEPT ![r] = "done"]
               /\ loc' = loc
          ELSE /\ pc' = [pc EXCEPT ![r] = "Login"]
               /\ loc' = [loc EXCEPT ![r].known = Matches(users, e, p)]
               /\ resp' = resp
  /\ UNCHANGED <<users, apps, auth>>

\* a Login that saves a user for an email the store does not know
AuthLoginUser_AutoSave(r) ==
  /\ pc[r] = "Login"
  /\ \E fail \in BOOLEAN :
       LET ur == IF fail THEN Res(<<StorageFailure>>, FALSE)
                 ELSE StorageUser(users, req[r].email)
           res == LoginCredentials(req[r].password, ur)
           cs == IF ur.err # Nil
                 THEN << <<"User", Outcome(ur.err)>> >>
                 ELSE << <<"User", "ok">>,
                         <<"Compare", Outcome(res.err)>> >>
       IN /\ users' = IF Is(ur.err, StorageErrUserNotFound)
                      THEN StorageSaveUser(users, req[r].email,
                             GenerateFromPassword(req[r].password, 1)).users
                      ELSE users
          /\ IF res.err # Nil
             THEN /\ loc' = [loc EXCEPT ![r].err = res.err,
                                        ![r].calls = @ \o cs,
                                        ![r].user = IF ur.err = Nil THEN <<ur.val>> ELSE <<>>]
                  /\ resp' = [resp EXCEPT ![r] = LoginReply(Res(res.err, ""))]
                  /\ pc' = [pc EXCEPT ![r] = "done"]
             ELSE /\ loc' = [loc EXCEPT ![r].user = <<res.val>>,
                                        ![r].calls = @ \o cs]
                  /\ pc' = [pc EXCEPT ![r] = "LoginApp"]
                  /\ resp' = resp
  /\ UNCHANGED <<apps, auth, req>>

\* Auth.Login: userProvider.User, then bcrypt.CompareHashAndPassword
AuthLoginUser(r) ==
  /\ pc[r] = "Login"
  /\ \E fail \in BOOLEAN :
       LET ur == IF fail THEN Res(<<StorageFailure>>, FALSE)
                 ELSE StorageUser(users, req[r].email)
           res == LoginCredentials(req[r].password, ur)
           cs == IF ur.err # Nil
                 THEN << <<"User", Outcome(ur.err)>> >>
                 ELSE << <<"User", "ok">>,
                         <<"Compare", Outcome(res.err)>> >>
       IN IF res.err # Nil
          THEN /\ loc' = [loc EXCEPT ![r].err = res.err,
                                     ![r].calls = @ \o cs,
                                     ![r].user = IF ur.err = Nil THEN <<ur.val>> ELSE <<>>]
               /\ resp' = [resp EXCEPT ![r] = LoginReply(Res(res.err, ""))]
               /\ pc' = [pc EXCEPT ![r] = "done"]
          ELSE /\ loc' = [loc EXCEPT ![r].user = <<res.val>>,
                                     ![r].calls = @ \o cs]
               /\ pc' = [pc EXCEPT ![r] = "LoginApp"]
               /\ resp' = resp
  /\ UNCHANGED <<users, apps, auth, req>>

\* Auth.Login: appProvider.App, then jwt.NewToken, then the handler's reply
AuthLoginApp(r) ==
  /\ pc[r] = "LoginApp"
  /\ \E fail \in BOOLEAN, signFail \in BOOLEAN, now \in 1 .. MaxClock :
       LET ar == IF fail THEN Res(<<StorageFailure>>, FALSE)
                 ELSE StorageApp(apps, req[r].appId)
           res == LoginIssue(loc[r].user[1], ar, auth.tokenTTL, now, signFail)
           cs == IF ar.err # Nil
                 THEN << <<"App", Outcome(ar.err)>> >>
                 ELSE << <<"App", "ok">>,
                         <<"NewToken", Outcome(res.err)>> >>
       IN /\ (ar.err # Nil => ~signFail /\ now = 1)
          /\ (signFail => now = 1)
          /\ loc' = [loc EXCEPT ![r].err = res.err,
                                ![r].val = IF res.err = Nil THEN <<res.val>> ELSE <<>>,
                                ![r].iat = IF res.err = Nil THEN now ELSE 0,
                                ![r].calls = @ \o cs]
          /\ resp' = [resp EXCEPT ![r] = LoginReply(res)]
          /\ pc' = [pc EXCEPT ![r] = "done"]
  /\ UNCHANGED <<users, apps, auth, req>>

\* serverAPI.Register: validate, then enter Auth.RegisterNewUser
ServerRegister(r) ==
  /\ pc[r] = "idle"
  /\ \E e \in Emails, p \in Passwords :
       LET v == RegisterRequestValidation(e, p) IN
       /\ req' = [req EXCEPT
                    ![r] = [NoReq EXCEPT !.op = "Register", !.email = e,
                                         !.password = p]]
       /\ IF v # <<>>
          THEN /\ resp' = [resp EXCEPT ![r] = ValidationError(v)]
               /\ pc' = [pc EXCEPT ![r] = "done"]
          ELSE /\ pc' = [pc EXCEPT ![r] = "RegisterNewUser"]
               /\ resp' = resp
  /\ UNCHANGED <<users, apps, auth, loc>>

\* Auth.RegisterNewUser: bcrypt.GenerateFromPassword, userSaver.SaveUser,
\* then the handler's reply
AuthRegisterNewUser(r) ==
  /\ pc[r] = "RegisterNewUser"
  /\ \E salt \in Salts, hashFail \in BOOLEAN, saveFail \in BOOLEAN :
       LET out == RegisterNewUser(users, req[r].email, req[r].password,
                                  salt, hashFail, saveFail)
           cs == IF ~out.called
                 THEN << <<"Generate", "failure">> >>
                 ELSE << <<"Generate", "ok">>,
                         <<"SaveUser", Outcome(out.res.err)>> >>
       IN /\ (hashFail => ~saveFail /\ salt = 1)
          /\ (saveFail => salt = 1)
          /\ users' = out.users
          /\ loc' = [loc EXCEPT ![r].err = out.res.err,
                                ![r].val = <<out.res.val>>,
                                ![r].calls = @ \o cs]
          /\ resp' = [resp EXCEPT ![r] = RegisterReply(out.res)]
          /\ pc' = [pc EXCEPT ![r] = "done"]
  /\ UNCHANGED <<apps, auth, req>>

\* serverAPI.IsAdmin: validate, then enter Auth.IsAdmin
ServerIsAdmin(r) ==
  /\ pc[r] = "idle"
  /\ \E id \in UserIds :
       LET v == IsAdminRequestValidation(id) IN
       /\ req' = [req EXCEPT ![r] = [NoReq EXCEPT !.op = "IsAdmin", !.userId = id]]
       /\ IF v # <<>>
          THEN /\ resp' = [resp EXCEPT ![r] = ValidationError(v)]
               /\ pc' = [pc EXCEPT ![r] = "done"]
          ELSE /\ pc' = [pc EXCEPT ![r] = "IsAdmin"]
               /\ resp' = resp
  /\ UNCHANGED <<users, apps, auth, loc>>

\* Auth.IsAdmin: userProvider.IsAdmin, then the handler's reply
AuthIsAdmin(r) ==
  /\ pc[r] = "IsAdmin"
  /\ \E fail \in BOOLEAN, nf \in IsAdminNotFound :
       LET ur == IF fail THEN Res(<<StorageFailure>>, FALSE)
                 ELSE StorageIsAdmin(users, req[r].userId, nf)
           res == IsAdmin(ur)
       IN /\ loc' = [loc EXCEPT ![r].err = res.err,
                                ![r].val = <<res.val>>,
                                ![r].calls = @ \o << <<"IsAdmin", Outcome(ur.err)>> >>]
          /\ resp' = [resp EXCEPT ![r] = IsAdminReply(res)]
          /\ pc' = [pc EXCEPT ![r] = "done"]
  /\ UNCHANGED <<users, apps, auth, req>>

\* the response is sent and the goroutine ends; the next request may come
Finish(r) ==
  /\ pc[r] = "done"
  /\ pc' = [pc EXCEPT ![r] = "idle"]
  /\ req' = [req EXCEPT ![r] = NoReq]
  /\ loc' = [loc EXCEPT ![r] = NoLoc]
  /\ resp' = [resp EXCEPT ![r] = NoResp]
  /\ UNCHANGED <<users, apps, auth>>

Next ==
  \/ \E r \in Reqs : ServerLogin(r)
  \/ \E r \in Reqs : AuthLoginUser(r)
  \/ \E r \in Reqs : AuthLoginApp(r)
  \/ \E r \in Reqs : ServerRegister(r)
  \/ \E r \in Reqs : AuthRegisterNewUser(r)
  \/ \E r \in Reqs : ServerIsAdmin(r)
  \/ \E r \in Reqs : AuthIsAdmin(r)
  \/ \E r \in Reqs : Finish(r)

Spec == Init /\ [][Next]_vars

\* ---------------------------------------------------------------- properties
Done(r, op) == pc[r] = "done" /\ req[r].op = op

Names(cs) == [i \in DOMAIN cs |-> cs[i][1]]
Called(r, fn) == \E i \in DOMAIN loc[r].calls : loc[r].calls[i][1] = fn
CalledWith(r, fn, o) == \E i \in DOMAIN loc[r].calls : loc[r].calls[i] = <<fn, o>>

\* a collaborator broke down during the call (store, bcrypt or signer failure)
BrokeDown(err) == \E f \in Failures : Is(err, f)

InvalidCredentialsReply == StatusError(InvalidArgument, "invalid email or password")

WellFormedEmails == { <<"a", "@", "x">>, <<"b", "@", "x">> }

\* C1: a Login returns a token only if, in that call, the user store returned
\* the user of the presented email and the presented password was verified
\* against that user's hash; the call is past the password check only then.
C1_TokenOnlyAfterVerification ==
  \A r \in Reqs :
    (req[r].op = "Login" /\ (resp[r].body # <<>> \/ pc[r] = "LoginApp")) =>
      /\ loc[r].user # <<>>
      /\ loc[r].user[1] \in users
      /\ loc[r].user[1].email = req[r].email
      /\ PasswordOf(loc[r].user[1]) = req[r].password
      /\ Len(loc[r].calls) >= 2
      /\ loc[r].calls[1] = <<"User", "ok">>
      /\ loc[r].calls[2] = <<"Compare", "ok">>

C1_Witness ==
  \E r \in Reqs : Done(r, "Login") /\ resp[r].code = OK /\ resp[r].body # <<>>

\* C2: when the user store answers, a Login with an email the store does not
\* hold and a Login with a stored email and a wrong password end the same way,
\* whatever the app id: the same Core error (InvalidCredentials) and the same
\* reply (InvalidArgument, "invalid email or password").
C2_UnknownEmailLikeWrongPassword ==
  [][\A r \in Reqs :
       (/\ pc[r] = "Login"
        /\ pc'[r] # "Login"
        /\ ~BrokeDown(loc'[r].err)
        /\ \/ ~\E u \in users : u.email = req[r].email
           \/ \E u \in users : u.email = req[r].email
                               /\ PasswordOf(u) # req[r].password)
       => /\ pc'[r] = "done"
          /\ loc'[r].err = <<opLogin, ErrInvalidCredentials>>
          /\ resp'[r] = InvalidCredentialsReply]_vars

C2_Witness ==
  \E r1, r2 \in Reqs :
    /\ Done(r1, "Login") /\ Done(r2, "Login")
    /\ ~\E u \in users : u.email = req[r1].email
    /\ loc[r1].calls = << <<"User", "error">> >>
    /\ loc[r2].calls = << <<"User", "ok">>, <<"Compare", "error">> >>
    /\ req[r1].appId # req[r2].appId
    /\ resp[r1] = InvalidCredentialsReply
    /\ resp[r1] = resp[r2]
    /\ loc[r1].err = loc[r2].err

\* C3: a Register that succeeds returns a positive id, the id of the record
\* now stored for that email and password; and a Login entered afterwards with
\* that email and password and an existing app id returns a token, whatever
\* the other requests do meanwhile (provided no collaborator breaks down
\* during the Login).
C3_RegisterThenLogin ==
  /\ \A r \in Reqs :
       (Done(r, "Register") /\ resp[r].code = OK) =>
         /\ resp[r].body[1] > 0
         /\ \E u \in users : /\ u.id = resp[r].body[1]
                             /\ u.email = req[r].email
                             /\ PasswordOf(u) = req[r].password
  /\ \A r \in Reqs :
       (/\ Done(r, "Login")
        /\ loc[r].known
        /\ \E a \in apps : a.id = req[r].appId
        /\ ~BrokeDown(loc[r].err))
       => /\ resp[r].code = OK
          /\ resp[r].body # <<>>
          /\ loc[r].err = Nil

C3_Witness ==
  \E r1, r2 \in Reqs :
    /\ Done(r1, "Register") /\ resp[r1].code = OK /\ resp[r1].body[1] > 0
    /\ Done(r2, "Login") /\ loc[r2].known
    /\ req[r2].email = req[r1].email /\ req[r2].password = req[r1].password
    /\ resp[r2].code = OK /\ resp[r2].body # <<>>

\* C4: a Register whose email is already stored leaves the user records as
\* they are and, when the store answers, returns UserExists with id 0, sent as
\* AlreadyExists "user already exists".
C4_RegisterExisting ==
  [][\A r \in Reqs :
       (/\ pc[r] = "RegisterNewUser"
        /\ pc'[r] = "done"
        /\ \E u \in users : u.email = req[r].email)
       => /\ users' = users
          /\ ~BrokeDown(loc'[r].err) =>
               /\ Is(loc'[r].err, ErrUserExists)
               /\ loc'[r].val = <<0>>
               /\ resp'[r] = StatusError(AlreadyExists, "user already exists")]_vars

C4_Witness ==
  \E r \in Reqs :
    /\ Done(r, "Register")
    /\ loc[r].calls = << <<"Generate", "ok">>, <<"SaveUser", "error">> >>
    /\ \E u \in users : u.email = req[r].email /\ PasswordOf(u) # req[r].password
    /\ resp[r].code = AlreadyExists

\* C5: when the store answers, IsAdmin on a user id the store does not hold is
\* sent as NotFound "user not found", on an admin it returns true, on another
\* user false.
C5_IsAdmin ==
  [][\A r \in Reqs :
       (pc[r] = "IsAdmin" /\ pc'[r] = "done" /\ ~BrokeDown(loc'[r].err)) =>
         IF \E u \in users : u.id = req[r].userId
         THEN resp'[r] = Reply((CHOOSE u \in users : u.id = req[r].userId).isAdmin)
         ELSE resp'[r] = StatusError(NotFound, "user not found")]_vars

\* C6: a request that breaks a validation rule is answered InvalidArgument
\* without entering the Core and without a single collaborator call.
BreaksRule(q) ==
  \/ q.op \in {"Login", "Register"} /\ q.email \notin WellFormedEmails
  \/ q.op \in {"Login", "Register"} /\ Len(q.password) < 6
  \/ q.op = "Register" /\ Len(q.password) > 32
  \/ q.op = "Login" /\ q.appId <= 0
  \/ q.op = "IsAdmin" /\ q.userId <= 0

C6_ValidationFirst ==
  \A r \in Reqs :
    (pc[r] # "idle" /\ BreaksRule(req[r])) =>
      /\ pc[r] = "done"
      /\ resp[r].code = InvalidArgument
      /\ resp[r].msg = "validation error"
      /\ resp[r].details # <<>>
      /\ resp[r].body = <<>>
      /\ loc[r] = NoLoc

C6_Witness ==
  \E r1, r2 \in Reqs :
    /\ Done(r1, "Login") /\ req[r1].email \in WellFormedEmails
    /\ Len(req[r1].password) >= 6 /\ req[r1].appId < 0
    /\ resp[r1].code = InvalidArgument /\ loc[r1].calls = <<>>
    /\ Done(r2, "Register") /\ req[r2].email \in WellFormedEmails
    /\ Len(req[r2].password) > 32
    /\ resp[r2].code = InvalidArgument /\ loc[r2].calls = <<>>

\* C7: an error of the Core that the handler does not map is sent as Internal
\* "internal server error", and the message holds no text of that error.
Mapped(op, err) ==
  \/ op = "Login" /\ Is(err, ErrInvalidCredentials)
  \/ op = "Register" /\ Is(err, ErrUserExists)
  \/ op = "IsAdmin" /\ Is(err, AuthErrUserNotFound)

C7_UnmappedIsInternal ==
  \A r \in Reqs :
    (pc[r] = "done" /\ loc[r].err # Nil /\ ~Mapped(req[r].op, loc[r].err)) =>
      /\ resp[r].code = Internal
      /\ resp[r].msg = "internal server error"
      /\ resp[r].msg \notin ErrorText(loc[r].err)
      /\ resp[r].details = <<>>
      /\ resp[r].body = <<>>

C7_Witness ==
  \E r1, r2 \in Reqs :
    /\ Done(r1, "Login") /\ Is(loc[r1].err, StorageErrAppNotFound)
    /\ resp[r1].code = Internal
    /\ Done(r2, "Register") /\ Is(loc[r2].err, StorageFailure)
    /\ resp[r2].code = Internal

\* C8: a returned token is for the user the store holds for the presented
\* email and for the app the store holds for the presented app id: it carries
\* that user's id and email, that app's id and key, and expires TTL after it
\* was issued.
C8_TokenClaims ==
  \A r \in Reqs :
    (Done(r, "Login") /\ resp[r].body # <<>>) =>
      LET t == resp[r].body[1] IN
      /\ \E u \in users : /\ u.email = req[r].email
                          /\ loc[r].user = <<u>>
                          /\ t.uid = u.id
                          /\ t.email = u.email
      /\ \E a \in apps : /\ a.id = req[r].appId
                         /\ t.app_id = a.id
                         /\ t.key = a.secret
      /\ loc[r].iat \in 1 .. MaxClock
      /\ t.exp = loc[r].iat + auth.tokenTTL

C8_Witness ==
  \E r \in Reqs :
    /\ Done(r, "Login") /\ resp[r].body # <<>>
    /\ resp[r].body[1].uid = 2
    /\ resp[r].body[1].exp = MaxClock + auth.tokenTTL

\* C9: the stores and the Auth value change only by RegisterNewUser adding
\* one record for its email; no step changes or removes a record, the app
\* store or the Auth value, and no step of Login or IsAdmin changes a store.
C9_Frame ==
  [][/\ apps' = apps
     /\ auth' = auth
     /\ users \subseteq users'
     /\ users' # users =>
          \E r \in Reqs :
            /\ pc[r] = "RegisterNewUser" /\ pc'[r] = "done"
            /\ \E u \in users' : /\ users' = users \cup {u}
                                 /\ u.email = req[r].email
                                 /\ ~\E v \in users : v.email = u.email \/ v.id = u.id
     /\ \A r \in Reqs :
          (pc[r] \in {"Login", "LoginApp", "IsAdmin"} /\ pc'[r] # pc[r]) =>
            users' = users]_vars

C9_Witness ==
  \E r1, r2 \in Reqs :
    /\ Cardinality(users) = 2
    /\ Done(r1, "Login") /\ resp[r1].code = OK
    /\ Done(r2, "IsAdmin") /\ resp[r2].code = OK

\* C10: Login calls the user store, checks the password, calls the app store
\* and issues the token, in that order, and stops at the first step that
\* fails: with an unknown email or a wrong password the app store is not
\* called and the result is InvalidCredentials, also for an app id that does
\* not exist; an app-lookup error comes only after the password was verified.
LoginOrder == <<"User", "Compare", "App", "NewToken">>

C10_LoginOrder ==
  \A r \in Reqs :
    req[r].op = "Login" =>
      LET cs == loc[r].calls IN
      /\ Len(cs) <= Len(LoginOrder)
      /\ Names(cs) = SubSeq(LoginOrder, 1, Len(cs))
      /\ \A i \in DOMAIN cs : i < Len(cs) => cs[i][2] = "ok"
      /\ (pc[r] = "done" /\ cs # <<>> /\ Len(cs) < Len(LoginOrder)) =>
           cs[Len(cs)][2] # "ok"
      /\ Called(r, "App") => Matches(users, req[r].email, req[r].password)
      /\ (CalledWith(r, "User", "error") \/ CalledWith(r, "Compare", "error")) =>
           /\ ~Called(r, "App")
           /\ Is(loc[r].err, ErrInvalidCredentials)
           /\ resp[r] = InvalidCredentialsReply
      /\ Is(loc[r].err, StorageErrAppNotFound) =>
           /\ Called(r, "App")
           /\ Matches(users, req[r].email, req[r].password)

C10_Witness ==
  \E r1, r2 \in Reqs :
    /\ Done(r1, "Login") /\ ~\E a \in apps : a.id = req[r1].appId
    /\ CalledWith(r1, "Compare", "error")
    /\ resp[r1] = InvalidCredentialsReply
    /\ Done(r2, "Login") /\ ~\E a \in apps : a.id = req[r2].appId
    /\ loc[r2].calls = << <<"User", "ok">>, <<"Compare", "ok">>, <<"App", "error">> >>

====
